---- MODULE Spec2Model ----
(***************************************************************************)
(* Model of src/algo_task_2.py: the recursive splay tree (Node, SplayTree)  *)
(* and the memoizing Fibonacci driver fibonacci_splay; and of               *)
(* src/algo_task_1.py: the LRUCache and the cached range sums over an array *)
(* with interval invalidation.                                              *)
(*                                                                          *)
(* The heap of Node objects is modelled explicitly: a node is an index      *)
(* into the sequences key, value, left, right (its fields); Null is the     *)
(* Python None link.  insert appends the node it creates; since the program *)
(* never observes object identity, every operation ends by renumbering the  *)
(* nodes in key order (Canon), which keeps one state per heap shape.        *)
(***************************************************************************)
EXTENDS Integers, Sequences, FiniteSets

\* ---------------------------------------------------------------- bounds
MaxKey == 5
MaxN == 5
ArrLen == 2
MaxCap == 2

Keys == 1..MaxKey
Values == {10, 20}
FibArgs == 0..MaxN
Indices == 0..(ArrLen - 1)
Ranges == {<<l, r>> \in Indices \X Indices : l <= r}
ArrVals == {-1, 2}
PutVals == {5}
Capacities == 0..MaxCap

\* ------------------------------------------------------- Python values
Null == 0
None == [type |-> "NoneType"]
PyInt(v) == [type |-> "int", val |-> v]
AttributeError == [type |-> "AttributeError"]
KeyError == [type |-> "KeyError"]

VARIABLES
    root,        \* SplayTree.root: a node index or Null
    key,         \* key[x]   = Node.key of node x
    value,       \* value[x] = Node.value of node x
    left,        \* left[x]  = Node.left of node x (index or Null)
    right,       \* right[x] = Node.right of node x (index or Null)
    fault,       \* TRUE once an operation raised (None dereferenced)
    op,          \* name of the last call made on the tree
    arg,         \* its key (or n) argument
    argv,        \* its value argument (insert), else 0
    result,      \* what the last call returned
    calls,       \* nested _splay invocations made by the last call
    created,     \* Node objects constructed by the last call
    filled,      \* indices the fill loop of the last fibonacci_splay visited
    inserts,     \* indices for which that call called tree.insert
    fallbacks,   \* times that call replaced a missed search by 0
    max_n,       \* history: largest n passed to fibonacci_splay, else -1
    capacity,    \* LRUCache.capacity
    data,        \* LRUCache._data: the entries, least recently used first
    array1,      \* run_benchmark's array read without the cache
    array2,      \* run_benchmark's array read through the cache
    evicted,     \* keys the last call removed with popitem
    used,        \* history: rank of each held key's last successful get/put
    last_insert  \* history: key -> value of the most recent insert, or None

treevars == <<root, key, value, left, right, calls, created, filled, inserts,
              fallbacks, max_n, last_insert>>

cachevars == <<capacity, data, array1, array2, evicted, used>>

vars == <<treevars, cachevars, fault, op, arg, argv, result>>

\* The tree object as one record; ret carries a function's return value,
\* calls counts the nested _splay invocations and created the Node()
\* constructions of the running operation; filled, inserts and fallbacks
\* record what a running fibonacci_splay did.
Tree == [root |-> root, key |-> key, value |-> value, left |-> left,
         right |-> right, fault |-> fault, ret |-> Null, calls |-> 0,
         created |-> 0, filled |-> {}, inserts |-> {}, fallbacks |-> 0]

\* Node(key, value): a fresh node with both links None, appended to the heap.
Node(t, k, v) ==
    [t EXCEPT !.key = Append(@, k), !.value = Append(@, v),
              !.left = Append(@, Null), !.right = Append(@, Null),
              !.created = @ + 1, !.ret = Len(t.key) + 1]

\* Variant of rotate_right with the wrong grandchild: x.left = y.left
rotate_right_wrong_child(t, x) ==
    LET y == t.left[x] IN
    IF y = Null THEN [t EXCEPT !.fault = TRUE]
    ELSE [t EXCEPT !.left[x] = t.left[y], !.right[y] = x, !.ret = y]

\* SplayTree._rotate_right: y = x.left; x.left = y.right; y.right = x; return y
\* (y.right on y = None raises).
rotate_right(t, x) ==
    LET y == t.left[x] IN
    IF y = Null THEN [t EXCEPT !.fault = TRUE]
    ELSE [t EXCEPT !.left[x] = t.right[y], !.right[y] = x, !.ret = y]

\* SplayTree._rotate_left: y = x.right; x.right = y.left; y.left = x; return y
rotate_left(t, x) ==
    LET y == t.right[x] IN
    IF y = Null THEN [t EXCEPT !.fault = TRUE]
    ELSE [t EXCEPT !.right[x] = t.left[y], !.left[y] = x, !.ret = y]

\* Variant of splay_base without the key test: if root is None
splay_base_nokey(t, r, k) == r = Null

\* _splay's base case: root is None or root.key == key
splay_base(t, r, k) == r = Null \/ t.key[r] = k

\* Variant of splay_return_left that skips the final rotation: return root
splay_return_left_norot(a) == a

\* Variant of splay_return_left without the None test:
\* return self._rotate_right(root)
splay_return_left_unguarded(a) ==
    IF a.fault THEN a ELSE rotate_right(a, a.ret)

\* _splay's last line on the left side (a.ret is the local variable root):
\* return root if root.left is None else self._rotate_right(root)
splay_return_left(a) ==
    IF a.fault THEN a
    ELSE IF a.left[a.ret] = Null THEN a
    ELSE rotate_right(a, a.ret)

\* Variant of splay_return_right that skips the final rotation: return root
splay_return_right_norot(a) == a

\* ... and on the right side:
\* return root if root.right is None else self._rotate_left(root)
splay_return_right(a) ==
    IF a.fault THEN a
    ELSE IF a.right[a.ret] = Null THEN a
    ELSE rotate_left(a, a.ret)

\* SplayTree._splay(root, key); the result's ret is the returned node.
RECURSIVE splay(_, _, _)
splay(t0, r, k) ==
    LET t == [t0 EXCEPT !.calls = @ + 1] IN
    IF splay_base(t, r, k) THEN [t EXCEPT !.ret = r]
    ELSE IF k < t.key[r] THEN
        IF t.left[r] = Null THEN [t EXCEPT !.ret = r]
        ELSE
            LET a == IF k < t.key[t.left[r]] THEN
                         \* root.left.left = _splay(root.left.left, key)
                         \* root = _rotate_right(root)
                         LET s == splay(t, t.left[t.left[r]], k) IN
                         IF s.fault THEN s
                         ELSE rotate_right([s EXCEPT !.left[s.left[r]] = s.ret], r)
                     ELSE IF k > t.key[t.left[r]] THEN
                         \* root.left.right = _splay(root.left.right, key)
                         \* if root.left.right is not None:
                         \*     root.left = _rotate_left(root.left)
                         LET s == splay(t, t.right[t.left[r]], k)
                             u == IF s.fault THEN s
                                  ELSE [s EXCEPT !.right[s.left[r]] = s.ret]
                         IN  IF u.fault THEN u
                             ELSE IF u.right[u.left[r]] # Null THEN
                                 LET w == rotate_left(u, u.left[r]) IN
                                 IF w.fault THEN w
                                 ELSE [w EXCEPT !.left[r] = w.ret, !.ret = r]
                             ELSE [u EXCEPT !.ret = r]
                     ELSE [t EXCEPT !.ret = r]
            IN  splay_return_left(a)
    ELSE
        IF t.right[r] = Null THEN [t EXCEPT !.ret = r]
        ELSE
            LET a == IF k > t.key[t.right[r]] THEN
                         \* root.right.right = _splay(root.right.right, key)
                         \* root = _rotate_left(root)
                         LET s == splay(t, t.right[t.right[r]], k) IN
                         IF s.fault THEN s
                         ELSE rotate_left([s EXCEPT !.right[s.right[r]] = s.ret], r)
                     ELSE IF k < t.key[t.right[r]] THEN
                         \* root.right.left = _splay(root.right.left, key)
                         \* if root.right.left is not None:
                         \*     root.right = _rotate_right(root.right)
                         LET s == splay(t, t.left[t.right[r]], k)
                             u == IF s.fault THEN s
                                  ELSE [s EXCEPT !.left[s.right[r]] = s.ret]
                         IN  IF u.fault THEN u
                             ELSE IF u.left[u.right[r]] # Null THEN
                                 LET w == rotate_right(u, u.right[r]) IN
                                 IF w.fault THEN w
                                 ELSE [w EXCEPT !.right[r] = w.ret, !.ret = r]
                             ELSE [u EXCEPT !.ret = r]
                     ELSE [t EXCEPT !.ret = r]
            IN  splay_return_right(a)

\* Variant of search without the key test: if self.root: return root.value
search_any(t, k) ==
    LET s == splay(t, t.root, k) IN
    IF s.fault THEN [s EXCEPT !.ret = AttributeError]
    ELSE LET u == [s EXCEPT !.root = s.ret] IN
         IF u.root # Null
         THEN [u EXCEPT !.ret = PyInt(u.value[u.root])]
         ELSE [u EXCEPT !.ret = None]

\* SplayTree.search(key); ret is the returned Python value.
search(t, k) ==
    LET s == splay(t, t.root, k) IN
    IF s.fault THEN [s EXCEPT !.ret = AttributeError]
    ELSE LET u == [s EXCEPT !.root = s.ret] IN
         IF u.root # Null /\ u.key[u.root] = k
         THEN [u EXCEPT !.ret = PyInt(u.value[u.root])]
         ELSE [u EXCEPT !.ret = None]

\* Variant of insert_link that forgets new.left = self.root.left.
insert_link_lose_left(u, k, v) ==
    LET n == Node(u, k, v)
        new == n.ret
    IN  IF k < u.key[u.root] THEN
            [n EXCEPT !.right[new] = u.root,
                      !.left[u.root] = Null,
                      !.root = new, !.ret = None]
        ELSE
            [n EXCEPT !.left[new] = u.root,
                      !.right[new] = u.right[u.root],
                      !.right[u.root] = Null,
                      !.root = new, !.ret = None]

\* Variant of insert_link with the comparison reversed: if key > self.root.key
insert_link_flipped(u, k, v) ==
    LET n == Node(u, k, v)
        new == n.ret
    IN  IF k > u.key[u.root] THEN
            [n EXCEPT !.right[new] = u.root,
                      !.left[new] = u.left[u.root],
                      !.left[u.root] = Null,
                      !.root = new, !.ret = None]
        ELSE
            [n EXCEPT !.left[new] = u.root,
                      !.right[new] = u.right[u.root],
                      !.right[u.root] = Null,
                      !.root = new, !.ret = None]

\* Variant of insert_link that does not detach the old root's subtree
\* (self.root.left = None and self.root.right = None missing).
insert_link_no_clear(u, k, v) ==
    LET n == Node(u, k, v)
        new == n.ret
    IN  IF k < u.key[u.root] THEN
            [n EXCEPT !.right[new] = u.root,
                      !.left[new] = u.left[u.root],
                      !.root = new, !.ret = None]
        ELSE
            [n EXCEPT !.left[new] = u.root,
                      !.right[new] = u.right[u.root],
                      !.root = new, !.ret = None]

\* insert, lines 79-88: link a new node above the splayed root u.root.
insert_link(u, k, v) ==
    LET n == Node(u, k, v)
        new == n.ret
    IN  IF k < u.key[u.root] THEN
            [n EXCEPT !.right[new] = u.root,
                      !.left[new] = u.left[u.root],
                      !.left[u.root] = Null,
                      !.root = new, !.ret = None]
        ELSE
            [n EXCEPT !.left[new] = u.root,
                      !.right[new] = u.right[u.root],
                      !.right[u.root] = Null,
                      !.root = new, !.ret = None]

\* Variant of insert without the update branch (lines 76-78 missing).
insert_always_new(t, k, v) ==
    IF t.root = Null THEN
        LET n == Node(t, k, v) IN
        [n EXCEPT !.root = n.ret, !.ret = None]
    ELSE
        LET s == splay(t, t.root, k) IN
        IF s.fault THEN [s EXCEPT !.ret = AttributeError]
        ELSE insert_link([s EXCEPT !.root = s.ret], k, v)

\* SplayTree.insert(key, value); returns None.
insert(t, k, v) ==
    IF t.root = Null THEN
        LET n == Node(t, k, v) IN
        [n EXCEPT !.root = n.ret, !.ret = None]
    ELSE
        LET s == splay(t, t.root, k) IN
        IF s.fault THEN [s EXCEPT !.ret = AttributeError]
        ELSE LET u == [s EXCEPT !.root = s.ret] IN
             IF u.root = Null THEN [u EXCEPT !.fault = TRUE, !.ret = AttributeError]
             ELSE IF u.key[u.root] = k THEN
                 [u EXCEPT !.value[u.root] = v, !.ret = None]
             ELSE insert_link(u, k, v)

\* Statement sequencing: the tree value t left by one statement is computed
\* once and handed to the rest of the function body, F.
Then(t, F(_)) == CHOOSE r \in {F(u) : u \in {t}} : TRUE

\* a if a is not None else 0
or_zero(a) == IF a # None THEN a.val ELSE 0

\* The tree b about to receive tree.insert(k, ...) computed from the search
\* results a and b: the call and each replacement by 0 are recorded.
noted(b, k, a_ret, b_ret) ==
    [b EXCEPT !.inserts = @ \cup {k},
              !.fallbacks = @ + (IF a_ret = None THEN 1 ELSE 0)
                              + (IF b_ret = None THEN 1 ELSE 0)]

\* Variant of fib_step that reads index k - 1 twice: b = tree.search(k - 1)
fib_step_typo(t, k) ==
    Then(search(t, k), LAMBDA s :
        IF s.fault \/ s.ret # None THEN s
        ELSE IF k < 2 THEN insert([s EXCEPT !.inserts = @ \cup {k}], k, k)
        ELSE Then(search(s, k - 1), LAMBDA a :
            IF a.fault THEN a
            ELSE Then(search(a, k - 1), LAMBDA b :
                IF b.fault THEN b
                ELSE insert(noted(b, k, a.ret, b.ret), k,
                            or_zero(a.ret) + or_zero(b.ret)))))

\* Variant of fib_step without the presence test (line 106 missing): every
\* index is computed and inserted again.
fib_step_always(t, k) ==
    IF k < 2 THEN insert([t EXCEPT !.inserts = @ \cup {k}], k, k)
    ELSE Then(search(t, k - 1), LAMBDA a :
        IF a.fault THEN a
        ELSE Then(search(a, k - 2), LAMBDA b :
            IF b.fault THEN b
            ELSE insert(noted(b, k, a.ret, b.ret), k,
                        or_zero(a.ret) + or_zero(b.ret))))

\* The loop body of fibonacci_splay for index k (lines 106-112).
fib_step(t, k) ==
    Then(search(t, k), LAMBDA s :
        IF s.fault \/ s.ret # None THEN s
        ELSE IF k < 2 THEN insert([s EXCEPT !.inserts = @ \cup {k}], k, k)
        ELSE Then(search(s, k - 1), LAMBDA a :
            IF a.fault THEN a
            ELSE Then(search(a, k - 2), LAMBDA b :
                IF b.fault THEN b
                ELSE insert(noted(b, k, a.ret, b.ret), k,
                            or_zero(a.ret) + or_zero(b.ret)))))

\* Variant of fib_fill that stops one index early: for k in range(0, n)
RECURSIVE fib_fill_exclusive(_, _, _)
fib_fill_exclusive(t, k, n) ==
    IF k >= n \/ t.fault THEN t
    ELSE Then(fib_step([t EXCEPT !.filled = @ \cup {k}], k),
              LAMBDA u : fib_fill_exclusive(u, k + 1, n))

\* for k in range(0, n + 1): ... , entered at index k.
RECURSIVE fib_fill(_, _, _)
fib_fill(t, k, n) ==
    IF k > n \/ t.fault THEN t
    ELSE Then(fib_step([t EXCEPT !.filled = @ \cup {k}], k),
              LAMBDA u : fib_fill(u, k + 1, n))

\* Variant of fibonacci_splay whose loop starts at 1: for k in range(1, n + 1)
fibonacci_splay_from_one(t, n) ==
    Then(search(t, n), LAMBDA hit :
        IF hit.fault \/ hit.ret # None THEN hit
        ELSE Then(fib_fill(hit, 1, n), LAMBDA f :
            IF f.fault THEN f ELSE search(f, n)))

\* fibonacci_splay(n, tree); ret is the returned Python value.
fibonacci_splay(t, n) ==
    Then(search(t, n), LAMBDA hit :
        IF hit.fault \/ hit.ret # None THEN hit
        ELSE Then(fib_fill(hit, 0, n), LAMBDA f :
            IF f.fault THEN f ELSE search(f, n)))

\* ------------------------------------------------------------ behaviour
\* No cache, no arrays: the state of algo_task_1 while only the tree runs.
NoCache ==
    /\ capacity = 0
    /\ data = <<>>
    /\ array1 = <<>>
    /\ array2 = <<>>
    /\ evicted = <<>>
    /\ used = [k \in Ranges |-> 0]

\* SplayTree.__init__: root = None, no node exists yet.
EmptyTree ==
    /\ root = Null
    /\ key = <<>>
    /\ value = <<>>
    /\ left = <<>>
    /\ right = <<>>
    /\ calls = 0
    /\ created = 0
    /\ filled = {}
    /\ inserts = {}
    /\ fallbacks = 0
    /\ max_n = -1
    /\ last_insert = [k \in Keys |-> None]

\* Nothing has been called yet.
NoCall ==
    /\ fault = FALSE
    /\ op = "init"
    /\ arg = 0
    /\ argv = 0
    /\ result = None

Init ==
    /\ NoCache
    /\ EmptyTree
    /\ NoCall

\* Node identity: the k-th node in (key, creation) order becomes node k.
Rank(t) ==
    [x \in 1..Len(t.key) |->
        1 + Cardinality({y \in 1..Len(t.key) :
                            \/ t.key[y] < t.key[x]
                            \/ t.key[y] = t.key[x] /\ y < x})]

Canon(t) ==
    LET rank == Rank(t)
        node == [i \in 1..Len(t.key) |-> CHOOSE x \in 1..Len(t.key) : rank[x] = i]
        ren == [x \in 0..Len(t.key) |-> IF x = Null THEN Null ELSE rank[x]]
    IN  IF \A i \in 1..(Len(t.key) - 1) : t.key[i] <= t.key[i + 1] THEN t
        ELSE [t EXCEPT !.root = ren[t.root],
                       !.key = [i \in 1..Len(t.key) |-> t.key[node[i]]],
                       !.value = [i \in 1..Len(t.key) |-> t.value[node[i]]],
                       !.left = [i \in 1..Len(t.key) |-> ren[t.left[node[i]]]],
                       !.right = [i \in 1..Len(t.key) |-> ren[t.right[node[i]]]]]

\* The state after a call that left the tree object as t.
Store(t) ==
    \E c \in {Canon(t)} :
    /\ root' = c.root
    /\ key' = c.key
    /\ value' = c.value
    /\ left' = c.left
    /\ right' = c.right
    /\ fault' = c.fault
    /\ result' = c.ret
    /\ calls' = c.calls
    /\ created' = c.created
    /\ filled' = c.filled
    /\ inserts' = c.inserts
    /\ fallbacks' = c.fallbacks

Search(k) ==
    /\ ~fault
    /\ \E t \in {search(Tree, k)} : Store(t)
    /\ op' = "search"
    /\ arg' = k
    /\ argv' = 0
    /\ UNCHANGED <<max_n, last_insert>>
    /\ UNCHANGED cachevars

Insert(k, v) ==
    /\ ~fault
    /\ \E t \in {insert(Tree, k, v)} : Store(t)
    /\ op' = "insert"
    /\ arg' = k
    /\ argv' = v
    /\ last_insert' = [last_insert EXCEPT ![k] = PyInt(v)]
    /\ UNCHANGED max_n
    /\ UNCHANGED cachevars

Next ==
    \/ \E k \in Keys : Search(k)
    \/ \E k \in Keys, v \in Values : Insert(k, v)

Spec == Init /\ [][Next]_vars

\* The benchmark's use of a tree: it is changed by the driver alone.
FibCall(n) ==
    /\ ~fault
    /\ \E t \in {fibonacci_splay(Tree, n)} : Store(t)
    /\ op' = "fibonacci_splay"
    /\ arg' = n
    /\ argv' = 0
    /\ max_n' = (IF n > max_n THEN n ELSE max_n)
    /\ UNCHANGED last_insert
    /\ UNCHANGED cachevars

NextFib == \E n \in FibArgs : FibCall(n)

SpecFib == Init /\ [][NextFib]_vars

\* ------------------------------------------------- src/algo_task_1.py
\* The cache object with the array it is used on, as one record; evicted
\* lists the keys popitem removed during the running call.
Cache(array) ==
    [capacity |-> capacity, data |-> data, array |-> array,
     evicted |-> <<>>, fault |-> fault, ret |-> None]

\* key in self._data
HeldKeys(c) == {c.data[i].key : i \in 1..Len(c.data)}

IndexOf(d, k) == CHOOSE i \in 1..Len(d) : d[i].key = k

\* OrderedDict.move_to_end(key)
move_to_end(d, k) ==
    LET i == IndexOf(d, k) IN
    Append(SubSeq(d, 1, i - 1) \o SubSeq(d, i + 1, Len(d)), d[i])

\* A get that returns the value and leaves the order alone.
lru_get_no_touch(c, k) ==
    IF k \in HeldKeys(c)
    THEN [c EXCEPT !.ret = PyInt(c.data[IndexOf(c.data, k)].value)]
    ELSE [c EXCEPT !.ret = PyInt(-1)]

\* LRUCache.get
lru_get(c, k) ==
    IF k \in HeldKeys(c) THEN
        LET d == move_to_end(c.data, k) IN
        [c EXCEPT !.data = d, !.ret = PyInt(d[Len(d)].value)]
    ELSE [c EXCEPT !.ret = PyInt(-1)]

\* A put that makes room before it stores a new key.
lru_put_evict_before(c, k, v) ==
    IF k \in HeldKeys(c) THEN
        LET d1 == move_to_end(c.data, k) IN
        [c EXCEPT !.data = [d1 EXCEPT ![Len(d1)].value = v], !.ret = None]
    ELSE IF Len(c.data) >= c.capacity THEN
        IF c.data = <<>> THEN [c EXCEPT !.fault = TRUE, !.ret = KeyError]
        ELSE [c EXCEPT !.data = Append(Tail(@), [key |-> k, value |-> v]),
                       !.evicted = Append(@, Head(c.data).key),
                       !.ret = None]
    ELSE [c EXCEPT !.data = Append(@, [key |-> k, value |-> v]), !.ret = None]

\* LRUCache.put; popitem(last=False) on an empty dict raises KeyError.
lru_put(c, k, v) ==
    LET d1 == IF k \in HeldKeys(c) THEN move_to_end(c.data, k) ELSE c.data
        d2 == IF k \in HeldKeys(c) THEN [d1 EXCEPT ![Len(d1)].value = v]
              ELSE Append(d1, [key |-> k, value |-> v])
    IN  IF Len(d2) > c.capacity THEN
            IF d2 = <<>> THEN [c EXCEPT !.fault = TRUE, !.ret = KeyError]
            ELSE [c EXCEPT !.data = Tail(d2),
                           !.evicted = Append(@, Head(d2).key),
                           !.ret = None]
        ELSE [c EXCEPT !.data = d2, !.ret = None]

\* LRUCache.keys
lru_keys(c) == [i \in 1..Len(c.data) |-> c.data[i].key]

\* sum(...) of a list
RECURSIVE sum(_)
sum(xs) == IF xs = <<>> THEN 0 ELSE Head(xs) + sum(Tail(xs))

\* array[lo:hi] for 0 <= lo <= hi <= len(array)
slice(array, lo, hi) == SubSeq(array, lo + 1, hi)

range_sum_no_cache(array, l, r) == sum(slice(array, l, r + 1))

update_no_cache(array, index, v) == [array EXCEPT ![index + 1] = v]

\* range_sum_with_cache(ctx, array, left, right), array being c.array
range_sum_with_cache(c, l, r) ==
    LET cached == lru_get(c, <<l, r>>) IN
    IF cached.ret # PyInt(-1) THEN cached
    ELSE LET res == sum(slice(c.array, l, r + 1))
             p == lru_put(cached, <<l, r>>, res)
         IN  IF p.fault THEN p ELSE [p EXCEPT !.ret = PyInt(res)]

\* The same loop with the left end of a range left out of the test.
RECURSIVE invalidate_open_left(_, _, _)
invalidate_open_left(c, ks, index) ==
    IF ks = <<>> THEN c
    ELSE LET k == Head(ks)
             c1 == IF k[1] < index /\ index <= k[2]
                   THEN [c EXCEPT !.data = SelectSeq(@, LAMBDA e : e.key # k)]
                   ELSE c
         IN  invalidate_open_left(c1, Tail(ks), index)

\* The loop of update_with_cache over the list ks of keys.
RECURSIVE invalidate(_, _, _)
invalidate(c, ks, index) ==
    IF ks = <<>> THEN c
    ELSE LET k == Head(ks)
             c1 == IF k[1] <= index /\ index <= k[2]
                   THEN [c EXCEPT !.data = SelectSeq(@, LAMBDA e : e.key # k)]
                   ELSE c
         IN  invalidate(c1, Tail(ks), index)

\* update_with_cache(ctx, array, index, value), array being c.array
update_with_cache(c, index, v) ==
    LET w == [c EXCEPT !.array = update_no_cache(@, index, v)] IN
    [invalidate(w, lru_keys(w), index) EXCEPT !.ret = None]

\* LRUCache.__init__: an empty cache of some capacity.
EmptyCache ==
    /\ capacity \in Capacities
    /\ data = <<>>
    /\ evicted = <<>>
    /\ used = [k \in Ranges |-> 0]

\* run_benchmark's setup: two equal arrays and an empty cache.
InitCache ==
    /\ EmptyTree
    /\ NoCall
    /\ EmptyCache
    /\ array1 \in [1..ArrLen -> ArrVals]
    /\ array2 = array1

\* A cache used on one array by calls in any order; array1 is not used.
InitLRU ==
    /\ EmptyTree
    /\ NoCall
    /\ EmptyCache
    /\ array1 = <<>>
    /\ array2 \in [1..ArrLen -> ArrVals]

\* History of use: a successful get or put of k makes k the latest.
Latest(u, k) ==
    [u EXCEPT ![k] = 1 + Cardinality({j \in Ranges : u[j] > 0})]

\* The same order of last use, kept for the held keys only and renumbered.
Renumbered(u, held) ==
    [j \in Ranges |->
        IF j \in held /\ u[j] > 0
        THEN Cardinality({i \in held : 0 < u[i] /\ u[i] <= u[j]})
        ELSE 0]

StoreCache(c) ==
    /\ data' = c.data
    /\ evicted' = c.evicted
    /\ fault' = c.fault
    /\ result' = c.ret
    /\ array2' = c.array
    /\ UNCHANGED capacity
    /\ UNCHANGED treevars

Get(k) ==
    /\ ~fault
    /\ \E c \in {lru_get(Cache(array2), k)} :
          /\ StoreCache(c)
          /\ used' = IF k \in HeldKeys(c)
                     THEN Renumbered(Latest(used, k), HeldKeys(c))
                     ELSE used
    /\ op' = "get"
    /\ arg' = k
    /\ argv' = 0
    /\ UNCHANGED array1

Put(k, v) ==
    /\ ~fault
    /\ \E c \in {lru_put(Cache(array2), k, v)} :
          /\ StoreCache(c)
          /\ used' = Renumbered(Latest(used, k), HeldKeys(c))
    /\ op' = "put"
    /\ arg' = k
    /\ argv' = v
    /\ UNCHANGED array1

RangeSum(l, r) ==
    /\ ~fault
    /\ \E c \in {range_sum_with_cache(Cache(array2), l, r)} :
          /\ StoreCache(c)
          /\ used' = Renumbered(Latest(used, <<l, r>>), HeldKeys(c))
    /\ op' = "range_sum_with_cache"
    /\ arg' = <<l, r>>
    /\ argv' = 0
    /\ UNCHANGED array1

UpdateCached(index, v) ==
    /\ ~fault
    /\ \E c \in {update_with_cache(Cache(array2), index, v)} :
          /\ StoreCache(c)
          /\ used' = Renumbered(used, HeldKeys(c))
    /\ op' = "update_with_cache"
    /\ arg' = index
    /\ argv' = v
    /\ UNCHANGED array1

NextLRU ==
    \/ \E k \in Ranges : Get(k)
    \/ \E k \in Ranges, v \in PutVals : Put(k, v)
    \/ \E k \in Ranges : RangeSum(k[1], k[2])
    \/ \E i \in Indices, v \in ArrVals : UpdateCached(i, v)

SpecLRU == InitLRU /\ [][NextLRU]_vars

\* run_benchmark: each query is applied to array1 without the cache and to
\* array2 through it.  The code runs the whole list of queries on array1
\* first and then on array2; the two loops share no state, so the queries
\* are taken here one at a time on both arrays.  argv keeps what
\* range_sum_no_cache returned for the query.
BenchRange(l, r) ==
    /\ ~fault
    /\ \E c \in {range_sum_with_cache(Cache(array2), l, r)} :
          /\ StoreCache(c)
          /\ used' = Renumbered(Latest(used, <<l, r>>), HeldKeys(c))
    /\ op' = "Range"
    /\ arg' = <<l, r>>
    /\ argv' = range_sum_no_cache(array1, l, r)
    /\ UNCHANGED array1

BenchUpdate(index, v) ==
    /\ ~fault
    /\ \E c \in {update_with_cache(Cache(array2), index, v)} :
          /\ StoreCache(c)
          /\ used' = Renumbered(used, HeldKeys(c))
    /\ op' = "Update"
    /\ arg' = index
    /\ argv' = v
    /\ array1' = update_no_cache(array1, index, v)

NextBench ==
    \/ \E k \in Ranges : BenchRange(k[1], k[2])
    \/ \E i \in Indices, v \in ArrVals : BenchUpdate(i, v)

SpecBench == InitCache /\ [][NextBench]_vars

\* ---------------------------------------------------------- properties
\* Auxiliary notions the properties are stated in.

\* The non-None links leaving the nodes of S.
Children(t, S) ==
    ({t.left[x] : x \in S} \cup {t.right[x] : x \in S}) \ {Null}

RECURSIVE ReachFrom(_, _, _)
ReachFrom(t, S, n) ==
    LET T == S \cup Children(t, S) IN
    IF n = 0 \/ T = S THEN S ELSE ReachFrom(t, T, n - 1)

\* The nodes of the subtree hanging from link x.
Subtree(t, x) == IF x = Null THEN {} ELSE ReachFrom(t, {x}, Len(t.key))

\* The keys stored in the tree.
StoredKeys(t) == {t.key[x] : x \in Subtree(t, t.root)}

IsBST(t) ==
    \A x \in 1..Len(t.key) :
        /\ \A y \in Subtree(t, t.left[x]) : t.key[y] < t.key[x]
        /\ \A y \in Subtree(t, t.right[x]) : t.key[y] > t.key[x]

\* The last node of the plain BST descent for k that starts at node x.
RECURSIVE PathEnd(_, _, _, _)
PathEnd(t, x, k, n) ==
    IF n = 0 \/ t.key[x] = k THEN x
    ELSE LET c == IF k < t.key[x] THEN t.left[x] ELSE t.right[x]
         IN  IF c = Null THEN x ELSE PathEnd(t, c, k, n - 1)

\* Number of nodes on that descent.
RECURSIVE PathLen(_, _, _, _)
PathLen(t, x, k, n) ==
    IF n = 0 \/ t.key[x] = k THEN 1
    ELSE LET c == IF k < t.key[x] THEN t.left[x] ELSE t.right[x]
         IN  IF c = Null THEN 1 ELSE 1 + PathLen(t, c, k, n - 1)

\* Integer keys a caller may pass: the modelled ones and one beyond each end.
ProbeKeys == 0..(MaxKey + 1)

SameShape(s, t) ==
    /\ s.root = t.root
    /\ s.key = t.key
    /\ s.value = t.value
    /\ s.left = t.left
    /\ s.right = t.right

\* The recurrence, computed iteratively: F(0) = 0, F(1) = 1.
RECURSIVE FibIter(_, _, _)
FibIter(a, b, n) == IF n = 0 THEN a ELSE FibIter(b, a + b, n - 1)

F(n) == FibIter(0, 1, n)

\* C1: the tree is a key -> value map.  In every reachable state a search
\* for any key returns the value of the most recent insert of that key, or
\* None if the key was never inserted; the search that was last made did so.
C1_MapRefinement ==
    /\ \A k \in Keys : search(Tree, k).ret = last_insert[k]
    /\ op = "search" => result = last_insert[arg]

C1_Witness ==
    /\ op = "search"
    /\ result = PyInt(20)
    /\ Len(key) >= 4
    /\ calls >= 2
    /\ \E k \in Keys : last_insert[k] = None

\* C2: BST invariant.  For every node, all keys in its left subtree are
\* smaller and all keys in its right subtree are larger than its own key,
\* and no two nodes hold the same key.
C2_BSTInvariant ==
    /\ IsBST(Tree)
    /\ \A x, y \in 1..Len(key) : x # y => key[x] # key[y]

C2_Witness ==
    /\ Len(key) >= 4
    /\ calls >= 2
    /\ \E x \in 1..Len(key) : left[x] # Null /\ right[x] # Null
    /\ \E x \in 1..Len(key) : x # root /\ left[x] # Null
    /\ \E x \in 1..Len(key) : x # root /\ right[x] # Null

\* C3: root promotion.  For every stored key k, wherever its node is, the
\* root after search(k) is the node that holds k; the search that was last
\* made and hit left its key at the root.
C3_RootPromotion ==
    /\ \A k \in StoredKeys(Tree) :
          LET s == search(Tree, k) IN
          /\ s.root # Null
          /\ s.key[s.root] = k
          /\ s.root = PathEnd(Tree, root, k, Len(key))
    /\ (op = "search" /\ result # None) => (root # Null /\ key[root] = arg)

C3_Witness ==
    /\ op = "search"
    /\ result # None
    /\ calls >= 3
    /\ key[root] = arg
    /\ left[root] # Null
    /\ right[root] # Null

\* C4: update semantics.  insert(k, v2) on a tree that holds k creates no
\* node, leaves the number of nodes unchanged, stores v2 at k, and a
\* following search(k) returns v2.
C4_UpdateInPlace ==
    \A k \in StoredKeys(Tree), v \in Values :
        LET s == insert(Tree, k, v) IN
        /\ s.created = 0
        /\ Len(s.key) = Len(key)
        /\ Cardinality(Subtree(s, s.root)) = Cardinality(Subtree(Tree, root))
        /\ s.key = key
        /\ s.value[s.root] = v
        /\ search(s, k).ret = PyInt(v)

C4_Witness ==
    /\ op = "insert"
    /\ created = 0
    /\ calls >= 2
    /\ Len(key) >= 3
    /\ value[root] = argv
    /\ \E x \in 1..Len(key) : value[x] # argv

\* C5: a miss is an outcome.  For every reachable tree, the empty one
\* included, and every key, search returns None exactly when the key is not
\* stored, raises nothing, and None differs from every storable value.
C5_MissIffAbsent ==
    /\ \A k \in ProbeKeys :
          LET s == search(Tree, k) IN
          /\ ~s.fault
          /\ (s.ret = None) <=> (k \notin StoredKeys(Tree))
    /\ \A x \in 1..Len(key) : PyInt(value[x]) # None
    /\ (op = "search" /\ result = None) => arg \notin StoredKeys(Tree)

C5_Witness ==
    /\ op = "search"
    /\ result = None
    /\ Len(key) >= 2
    /\ ~fault

\* C6: neighbor promotion on a miss.  For every non-empty tree and every
\* key k not stored, the root after search(k) is the last node of the BST
\* search path for k in the tree before the call, and its key is the
\* largest stored key below k or the smallest stored key above k.
C6_NeighborPromotion ==
    root # Null =>
        \A k \in ProbeKeys \ StoredKeys(Tree) :
            LET s == search(Tree, k)
                e == PathEnd(Tree, root, k, Len(key))
                below == {j \in StoredKeys(Tree) : j < k}
                above == {j \in StoredKeys(Tree) : j > k}
            IN  /\ s.root = e
                /\ \/ key[e] \in below /\ \A j \in below : j <= key[e]
                   \/ key[e] \in above /\ \A j \in above : j >= key[e]

C6_Witness ==
    /\ op = "search"
    /\ result = None
    /\ calls >= 3
    /\ root # Null
    /\ left[root] # Null
    /\ right[root] # Null

\* C7: the driver returns F(n) whatever the order of the calls made on
\* one tree that starts empty.
C7_DriverCorrect ==
    op = "fibonacci_splay" => result = PyInt(F(arg))

\* A call for an index below the largest one memoized so far.
C7_Witness ==
    /\ op = "fibonacci_splay"
    /\ arg >= 3
    /\ Len(key) >= arg + 2
    /\ result = PyInt(F(arg))

\* C8: no operation raises.  No rotation is called on a node whose rotated
\* child is None and no step dereferences None, for any integer key.
C8_NoFault ==
    /\ ~fault
    /\ result # AttributeError
    /\ \A k \in ProbeKeys :
          /\ ~search(Tree, k).fault
          /\ \A v \in Values : ~insert(Tree, k, v).fault

C8_Witness ==
    /\ ~fault
    /\ op = "search"
    /\ calls >= 3
    /\ Len(key) >= 4

\* C9: splaying on a stored key twice in a row gives the same tree as
\* splaying on it once.
C9_SplayIdempotent ==
    \A k \in StoredKeys(Tree) :
        LET once == search(Tree, k)
            twice == search(once, k)
        IN  /\ SameShape(twice, once)
            /\ twice.ret = once.ret

\* A search for the key that is already at the root.
C9_Witness ==
    /\ op = "search"
    /\ result # None
    /\ calls = 1
    /\ Len(key) >= 3
    /\ key[root] = arg

\* The links entering node x from the nodes of S, as <<parent, side>>.
LinksInto(t, S, x) ==
    {<<p, "left">> : p \in {q \in S : t.left[q] = x}}
        \cup {<<p, "right">> : p \in {q \in S : t.right[q] = x}}

\* The links below r form a tree: r is entered by no link, every other node
\* under r by exactly one (so no cycle, no sharing, one path to each node).
TreeShaped(t, r) ==
    LET S == Subtree(t, r) IN
    \A x \in S : Cardinality(LinksInto(t, S, x)) = (IF x = r THEN 0 ELSE 1)

\* A rotation at x acts as an ownership transfer: it returns a node y under
\* which the same nodes hang as hung under x, in tree shape, it allocates
\* nothing, keeps keys and values, and touches the links of x and y only.
RotationOwns(t, x, res) ==
    /\ ~res.fault
    /\ TreeShaped(res, res.ret)
    /\ Subtree(res, res.ret) = Subtree(t, x)
    /\ res.key = t.key
    /\ res.value = t.value
    /\ \A z \in (1..Len(t.key)) \ {x, res.ret} :
          res.left[z] = t.left[z] /\ res.right[z] = t.right[z]

C12_InsertShape ==
    /\ op = "insert" => (root # Null /\ key[root] = arg /\ value[root] = argv)
    /\ \A k \in ProbeKeys, v \in Values :
          LET i == insert(Tree, k, v)
              new == i.root
              s == splay(Tree, root, k)
              r == s.ret
          IN  /\ new # Null
              /\ i.key[new] = k
              /\ i.value[new] = v
              /\ (root # Null /\ k \notin StoredKeys(Tree)) =>
                    /\ new = Len(key) + 1
                    /\ IF k < s.key[r]
                       THEN /\ i.right[new] = r
                            /\ i.left[new] = s.left[r]
                            /\ i.left[r] = Null
                            /\ i.right[r] = s.right[r]
                       ELSE /\ i.left[new] = r
                            /\ i.right[new] = s.right[r]
                            /\ i.right[r] = Null
                            /\ i.left[r] = s.left[r]

C12_Witness ==
    /\ op = "insert"
    /\ created = 1
    /\ Len(key) >= 4
    /\ key[root] = arg
    /\ left[root] # Null
    /\ right[root] # Null

Abs(n) == IF n < 0 THEN -n ELSE n

\* C13 as claimed: after a search that missed on a non-empty tree no stored
\* key is nearer to the searched key than the root's key.
C13_NearestByDistance ==
    (op = "search" /\ result = None /\ root # Null) =>
        \A x \in 1..Len(key) : Abs(key[x] - arg) >= Abs(key[root] - arg)

\* C13, amended: after a search that missed on a non-empty tree the root's
\* key is adjacent to the searched key in key order, i.e. no stored key
\* lies strictly between the two; it need not be the nearer by distance.
C13_AdjacentInOrder ==
    /\ (op = "search" /\ result = None /\ root # Null) =>
          \A x \in 1..Len(key) :
              ~(key[root] < key[x] /\ key[x] < arg)
                  /\ ~(arg < key[x] /\ key[x] < key[root])
    /\ root # Null =>
          \A k \in ProbeKeys \ StoredKeys(Tree) :
              LET s == search(Tree, k) IN
              \A x \in 1..Len(key) :
                  ~(s.key[s.root] < key[x] /\ key[x] < k)
                      /\ ~(k < key[x] /\ key[x] < s.key[s.root])

\* A miss that left the farther of the two neighbours at the root.
C13_Witness ==
    /\ op = "search"
    /\ result = None
    /\ root # Null
    /\ \E x \in 1..Len(key) : Abs(key[x] - arg) < Abs(key[root] - arg)

\* Links examined by the plain BST descent for k from the root: the nodes
\* on the path, and the None link that ends it when k is not stored.
LinksOnPath(t, k) ==
    IF t.root = Null THEN 1
    ELSE PathLen(t, t.root, k, Len(t.key))
             + (IF k \in StoredKeys(t) THEN 0 ELSE 1)

\* C17 as claimed: the nested _splay invocations of a search equal the
\* length of the search path, counted in nodes or counted in links.
C17_DepthEqualsPath ==
    \/ \A k \in StoredKeys(Tree) :
          search(Tree, k).calls = PathLen(Tree, root, k, Len(key))
    \/ \A k \in StoredKeys(Tree) :
          search(Tree, k).calls = PathLen(Tree, root, k, Len(key)) - 1

\* C17, amended: _splay descends two links per invocation, so a search, or
\* an insert into a non-empty tree, nests ceil(L / 2) invocations, where L
\* counts the nodes on the search path plus the None link that ends a miss.
C17_DepthHalfPath ==
    \A k \in ProbeKeys :
        /\ search(Tree, k).calls = (LinksOnPath(Tree, k) + 1) \div 2
        /\ root # Null =>
              insert(Tree, k, 10).calls = (LinksOnPath(Tree, k) + 1) \div 2
        /\ root = Null => insert(Tree, k, 10).calls = 0

\* A hit four links below the root, reached with three nested invocations.
C17_Witness ==
    /\ op = "search"
    /\ result # None
    /\ calls = 3
    /\ Len(key) >= 5

\* C14: the fallback is dead.  No fibonacci_splay call on a tree changed
\* by the driver alone ever replaces a missed search(k - 1) or search(k - 2)
\* by 0.
C14_FallbackDead ==
    /\ fallbacks = 0
    /\ ~fault

\* A call whose fill loop computed indices from the recurrence.
C14_Witness ==
    /\ op = "fibonacci_splay"
    /\ \E k \in inserts : k >= 3
    /\ fallbacks = 0

\* C15: memo table.  In every state the tree holds exactly the indices
\* 0..max_n, one node each, every one reachable from the root, with F(k)
\* stored at index k; and no call changes a key or value already stored.
C15_MemoTable ==
    /\ [](/\ Len(key) = max_n + 1
          /\ \A i \in 1..Len(key) : key[i] = i - 1 /\ value[i] = F(i - 1)
          /\ StoredKeys(Tree) = 0..max_n
          /\ Cardinality(Subtree(Tree, root)) = max_n + 1)
    /\ [][\A i \in 1..Len(key) : key'[i] = key[i] /\ value'[i] = value[i]]_vars

\* A call for an index memoized earlier, after a larger one was filled.
C15_Witness ==
    /\ op = "fibonacci_splay"
    /\ max_n >= 4
    /\ arg < max_n
    /\ created = 0
    /\ Len(key) = max_n + 1

\* C16 as claimed: a call whose first search misses calls insert for every
\* index 0..n.
C16_InsertsEveryIndex ==
    (op = "fibonacci_splay" /\ filled # {}) => inserts = 0..arg

\* C16, amended: a call whose first search misses visits every index 0..n
\* from 0 and searches it, but calls insert only for the indices that were
\* not stored before the call; stored values stay as they are.  A call whose
\* first search hits visits and inserts nothing.
C16_InsertsOnlyMissing ==
    [][/\ (op' = "fibonacci_splay" /\ arg' \notin StoredKeys(Tree)) =>
            /\ filled' = 0..arg'
            /\ inserts' = (0..arg') \ StoredKeys(Tree)
            /\ created' = Cardinality(inserts')
            /\ \A i \in 1..Len(key) : value'[i] = value[i]
       /\ (op' = "fibonacci_splay" /\ arg' \in StoredKeys(Tree)) =>
            /\ filled' = {}
            /\ inserts' = {}
            /\ created' = 0]_vars

\* A refill that skipped the insert for indices memoized before.
C16_Witness ==
    /\ op = "fibonacci_splay"
    /\ arg >= 3
    /\ filled = 0..arg
    /\ inserts # {}
    /\ inserts # filled
    /\ \A k \in inserts : k >= 2

\* ------------------------------------------------------------------
\* The keys held by the cache and their positions in its order.
Held == {data[i].key : i \in 1..Len(data)}

\* The sum of array[l..r], both ends included, written out element by
\* element.
RECURSIVE SumRange(_, _, _)
SumRange(array, l, r) ==
    IF l > r THEN 0 ELSE array[l + 1] + SumRange(array, l + 1, r)

\* C18: under run_benchmark's queries the two arrays stay equal, every
\* range_sum_with_cache returns what range_sum_no_cache returns for the
\* same query, and every entry (l, r) -> s held in the cache has
\* s = sum(array2[l..r]).
C18_CachedEqualsUncached ==
    /\ array1 = array2
    /\ op = "Range" =>
          /\ result = PyInt(argv)
          /\ result = PyInt(SumRange(array1, arg[1], arg[2]))
    /\ \A i \in 1..Len(data) :
          data[i].value = SumRange(array2, data[i].key[1], data[i].key[2])

\* A range query answered -1, the value get uses for a miss, while the
\* cache holds entries and has just evicted one.
C18_Witness ==
    /\ op = "Range"
    /\ result = PyInt(-1)
    /\ Len(data) >= 1
    /\ evicted # <<>>
    /\ \E i \in 1..Len(data) : data[i].value = -1

\* C19: a put of a new key into a full cache (capacity >= 1) evicts
\* exactly one entry, the one whose last successful get or put is the
\* oldest among those held; a get hit or a put on a held key makes that
\* key the most recently used; a get miss returns -1 and changes neither
\* contents nor order.
C19_EvictionOrder ==
    [][/\ (op' = "put" /\ arg' \notin Held /\ capacity >= 1
            /\ Len(data) = capacity) =>
             /\ Len(evicted') = 1
             /\ evicted'[1] \in Held
             /\ \A j \in Held : used[evicted'[1]] <= used[j]
             /\ {data'[i].key : i \in 1..Len(data')}
                  = (Held \ {evicted'[1]}) \cup {arg'}
       /\ (op' \in {"get", "put"} /\ arg' \in Held) =>
             /\ evicted' = <<>>
             /\ {data'[i].key : i \in 1..Len(data')} = Held
             /\ data'[Len(data')].key = arg'
             /\ \A j \in Held \ {arg'} : used'[j] < used'[arg']
             /\ \A i, j \in Held \ {arg'} :
                   (used[i] < used[j]) <=> (used'[i] < used'[j])
             /\ SelectSeq(data', LAMBDA e : e.key # arg')
                  = SelectSeq(data, LAMBDA e : e.key # arg')
       /\ (op' = "get" /\ arg' \notin Held) =>
             /\ result' = PyInt(-1)
             /\ data' = data
             /\ used' = used
             /\ evicted' = <<>>
      ]_vars

\* A put into a full cache of two entries has evicted one of them.
C19_Witness ==
    /\ op = "put"
    /\ capacity = 2
    /\ Len(data) = 2
    /\ Len(evicted) = 1
    /\ evicted[1] # arg
    /\ data[2].key = arg

\* C20: after every get, put, range_sum_with_cache and update_with_cache
\* the cache holds at most capacity entries, and put never tries to evict
\* from an empty cache.
C20_CapacityBound ==
    /\ Len(data) <= capacity
    /\ ~fault
    /\ result # KeyError

\* A put into a cache of capacity 0: the entry is stored and evicted at
\* once, and the cache is empty again.
C20_Witness ==
    /\ capacity = 0
    /\ op = "put"
    /\ evicted = <<arg>>
    /\ data = <<>>

====
